---- MODULE Spec2Model ----
(***************************************************************************)
(* Prop Firm Simulator (src/prop_sim.py): the trial state machine of       *)
(* run_monte_carlo, its aggregation into a scenario result, the            *)
(* trajectory variant run_visualization_sim, and the sweep over the grid   *)
(* of risk amounts and trade frequencies ("Run Full Analysis").            *)
(*                                                                         *)
(* Money is counted in whole units, so every sum the code forms is exact.  *)
(* win_rate is the percentage the sidebar hands over (win_rate_input), and *)
(* a draw of np.random.rand() is the percentage point it falls in, so      *)
(* "rand() < win_rate" is "draw < win_rate" with draw in 0..99.            *)
(***************************************************************************)
EXTENDS Integers, Sequences, FiniteSets, TLC

\* ------------------------------------------------------------------ bounds
MaxDays == 2
MaxTrades == 2
MaxSims == 2

\* --------------------------------------------------- configuration values
AccountSizes == {10}
ProfitTargets == {-1, 3}
MaxDailyDDs == {2, 3}
MaxTotalDDs == {0, 2}
TrailingTypes == {"Trailing from High Water Mark", "Static"}
WinRates == {50, 100}
RewardRatios == {1, 2}
RiskVals == {1, 2}
DailyLimitRs == {0, 1, 2}
Draws == {0, 99}

\* The sidebar values (lines 32-63) and the two arguments of run_monte_carlo
\* (line 67), within the ranges section 3 of the specification allows.
Configs ==
    [account_size : AccountSizes,
     profit_target : ProfitTargets,
     max_daily_dd : MaxDailyDDs,
     max_total_dd : MaxTotalDDs,
     trailing_type : TrailingTypes,
     win_rate : WinRates,
     reward_ratio : RewardRatios,
     risk_val : RiskVals,
     trades_day_val : 1..MaxTrades,
     daily_limit_r : DailyLimitRs,
     max_days : 1..MaxDays,
     num_simulations : 1..MaxSims]

VARIABLES
    cfg,                    \* the configuration of this run
    pc,                     \* position in run_monte_carlo outside a trial
    sim,                    \* the locals of the current trial
    sim_no,                 \* trials completed so far (the outer loop's index)
    pass_count, fail_count, timeout_count,
    all_pass_days, all_fail_days, all_final_pnl,
    all_max_win_streaks, all_max_loss_streaks,
    result,                 \* the dictionary run_monte_carlo returns
    error,                  \* the exception run_monte_carlo raised, or "none"
    running,                \* which run is executing: "mc", "off" or "viz"
    tape,                   \* the values np.random.rand() has produced so far
    off,                    \* the locals of the same trial run with the breaker disabled
    n_viz,                  \* the sample size handed to run_visualization_sim
    viz,                    \* the locals of run_visualization_sim
    all_curves,             \* the points run_visualization_sim has collected
    risk_input,             \* the sidebar's "Risk Amounts" text, split at the commas
    trades_input,           \* the sidebar's "Trades Per Day" text, split at the commas
    session_state,          \* st.session_state: sim_results and sim_params
    sweep                   \* the locals of the "Run Full Analysis" handler

aggVars == <<pass_count, fail_count, timeout_count, all_pass_days, all_fail_days,
             all_final_pnl, all_max_win_streaks, all_max_loss_streaks>>
mcVars == <<pc, sim, sim_no, aggVars, result, error>>
replayVars == <<tape, off>>
vizVars == <<n_viz, viz, all_curves>>
sweepVars == <<risk_input, trades_input, session_state, sweep>>
vars == <<cfg, running, mcVars, replayVars, vizVars, sweepVars>>

\* ------------------------------------------------------------ the trial
\* Variant of line 69 that forgets reward_ratio.
RewardPerTrade_NoRatio(c) == c.risk_val

\* Line 69.
RewardPerTrade(c) == c.risk_val * c.reward_ratio

\* Line 70.
PersonalLimitUsd(c) ==
    IF c.daily_limit_r > 0 THEN c.daily_limit_r * c.risk_val ELSE 0

\* Lines 84-92. day and daily_start_equity are not assigned before the first
\* day; day = -1 stands for "the day loop has not produced an index yet".
\* exit, executed and exits are the trial's history: the break the last trade
\* took, and per day the number of trades executed and the break that ended it.
NewSim(c) ==
    [pc |-> "day_loop",
     equity |-> c.account_size,
     high_water_mark |-> c.account_size,
     status |-> "In Progress",
     current_dd_limit |-> c.account_size - c.max_total_dd,
     sim_max_win_streak |-> 0,
     sim_max_loss_streak |-> 0,
     current_win_streak |-> 0,
     current_loss_streak |-> 0,
     day |-> -1,
     daily_start_equity |-> c.account_size,
     trade |-> 0,
     exit |-> "none",
     executed |-> << >>,
     exits |-> << >>]

\* Variant of lines 94-97 that starts every day with both streaks at 0.
DayLoop_ResetStreaks(s, c) ==
    IF s.day + 1 < c.max_days
    THEN [s EXCEPT !.day = s.day + 1,
                   !.daily_start_equity = s.equity,
                   !.trade = 0,
                   !.current_win_streak = 0,
                   !.current_loss_streak = 0,
                   !.executed = Append(s.executed, 0),
                   !.exits = Append(s.exits, "none"),
                   !.pc = IF c.trades_day_val > 0 THEN "trade" ELSE "day_end"]
    ELSE [s EXCEPT !.pc = "collect"]

\* Lines 94-97: the head of the day loop and of the trade loop.
DayLoop(s, c) ==
    IF s.day + 1 < c.max_days
    THEN [s EXCEPT !.day = s.day + 1,
                   !.daily_start_equity = s.equity,
                   !.trade = 0,
                   !.executed = Append(s.executed, 0),
                   !.exits = Append(s.exits, "none"),
                   !.pc = IF c.trades_day_val > 0 THEN "trade" ELSE "day_end"]
    ELSE [s EXCEPT !.pc = "collect"]

IsWin(draw, c) == draw < c.win_rate

Max(a, b) == IF a > b THEN a ELSE b

\* Lines 100-109.
ApplyOutcome(s, c, is_win) ==
    IF is_win
    THEN [s EXCEPT !.current_win_streak = s.current_win_streak + 1,
                   !.current_loss_streak = 0,
                   !.sim_max_win_streak = Max(s.sim_max_win_streak, s.current_win_streak + 1),
                   !.equity = s.equity + RewardPerTrade(c)]
    ELSE [s EXCEPT !.current_loss_streak = s.current_loss_streak + 1,
                   !.current_win_streak = 0,
                   !.sim_max_loss_streak = Max(s.sim_max_loss_streak, s.current_loss_streak + 1),
                   !.equity = s.equity - c.risk_val]

\* Variant of lines 111-114 without the test of line 111.
UpdateHighWater_NoGuard(s, c) ==
    [s EXCEPT !.high_water_mark = s.equity,
              !.current_dd_limit =
                  IF c.trailing_type = "Trailing from High Water Mark"
                  THEN s.equity - c.max_total_dd
                  ELSE s.current_dd_limit]

\* Lines 111-114.
UpdateHighWater(s, c) ==
    IF s.equity > s.high_water_mark
    THEN [s EXCEPT !.high_water_mark = s.equity,
                   !.current_dd_limit =
                       IF c.trailing_type = "Trailing from High Water Mark"
                       THEN s.equity - c.max_total_dd
                       ELSE s.current_dd_limit]
    ELSE s

\* Variant of lines 116-127 that tests the profit target first.
ExitCheck_TargetFirst(s, c) ==
    LET current_daily_loss == s.daily_start_equity - s.equity IN
    IF s.equity >= c.account_size + c.profit_target THEN "target"
    ELSE IF s.equity <= s.current_dd_limit THEN "total_dd"
    ELSE IF current_daily_loss >= c.max_daily_dd THEN "daily_dd"
    ELSE IF PersonalLimitUsd(c) > 0 /\ current_daily_loss >= PersonalLimitUsd(c)
         THEN "personal"
    ELSE "none"

\* Variant of lines 70 and 123 without the tests "> 0".
ExitCheck_NoEnableTest(s, c) ==
    LET current_daily_loss == s.daily_start_equity - s.equity IN
    IF s.equity <= s.current_dd_limit THEN "total_dd"
    ELSE IF current_daily_loss >= c.max_daily_dd THEN "daily_dd"
    ELSE IF current_daily_loss >= c.daily_limit_r * c.risk_val THEN "personal"
    ELSE IF s.equity >= c.account_size + c.profit_target THEN "target"
    ELSE "none"

\* Variant of line 125 that tests the profit target with ">".
ExitCheck_StrictTarget(s, c) ==
    LET current_daily_loss == s.daily_start_equity - s.equity IN
    IF s.equity <= s.current_dd_limit THEN "total_dd"
    ELSE IF current_daily_loss >= c.max_daily_dd THEN "daily_dd"
    ELSE IF PersonalLimitUsd(c) > 0 /\ current_daily_loss >= PersonalLimitUsd(c)
         THEN "personal"
    ELSE IF s.equity > c.account_size + c.profit_target THEN "target"
    ELSE "none"

\* Lines 116-127: which break, if any, ends the trade loop.
ExitCheck(s, c) ==
    LET current_daily_loss == s.daily_start_equity - s.equity IN
    IF s.equity <= s.current_dd_limit THEN "total_dd"
    ELSE IF current_daily_loss >= c.max_daily_dd THEN "daily_dd"
    ELSE IF PersonalLimitUsd(c) > 0 /\ current_daily_loss >= PersonalLimitUsd(c)
         THEN "personal"
    ELSE IF s.equity >= c.account_size + c.profit_target THEN "target"
    ELSE "none"

StatusAfter(status, exit) ==
    CASE exit \in {"total_dd", "daily_dd"} -> "Failed"
      [] exit = "target" -> "Passed"
      [] OTHER -> status

\* Lines 98-127: one iteration of the trade loop.
TradeStep(s, c, draw) ==
    LET s1 == UpdateHighWater(ApplyOutcome(s, c, IsWin(draw, c)), c)
        exit == ExitCheck(s1, c)
    IN [s1 EXCEPT !.exit = exit,
                  !.status = StatusAfter(s1.status, exit),
                  !.trade = s.trade + 1,
                  !.executed[Len(s.executed)] = s.executed[Len(s.executed)] + 1,
                  !.exits[Len(s.exits)] = exit,
                  !.pc = IF exit # "none" \/ s.trade + 1 >= c.trades_day_val
                         THEN "day_end" ELSE "trade"]

\* Variant of line 129 that never leaves the day loop.
DayEnd_NoBreak(s) == [s EXCEPT !.pc = "day_loop"]

\* Line 129.
DayEnd(s) ==
    [s EXCEPT !.pc = IF s.status # "In Progress" THEN "collect" ELSE "day_loop"]

\* Lines 135-145.
OutcomeStatus(status) ==
    IF status = "Passed" THEN "Passed"
    ELSE IF status = "Failed" THEN "Failed"
    ELSE "Timeout"

\* Lines 136, 140 and 144: the if / elif / else that picks a trial's bucket.
CountsPass(status) == status = "Passed"

CountsFail(status) == status # "Passed" /\ status = "Failed"

\* Variant of lines 140-145 with "if" for "elif".
CountsTimeout_IfNotElif(status) == status # "Failed"

CountsTimeout(status) == status # "Passed" /\ status # "Failed"

\* ------------------------------------------------------------ statistics
\* A quotient a / b of the code is kept as the fraction [n |-> a, d |-> b];
\* d = 0 is the division Python refuses with ZeroDivisionError.
Frac(a, b) == [n |-> a, d |-> b]
Whole(a) == [n |-> a, d |-> 1]

RECURSIVE SumSeq(_)
SumSeq(s) == IF s = << >> THEN 0 ELSE Head(s) + SumSeq(Tail(s))

Sorted(s) == SortSeq(s, LAMBDA a, b : a < b)

\* np.median: the middle order statistic, or the mean of the two middle ones.
Median(s) ==
    LET a == Sorted(s)
        k == Len(s)
    IN IF k % 2 = 1 THEN Whole(a[(k + 1) \div 2])
       ELSE Frac(a[k \div 2] + a[k \div 2 + 1], 2)

\* np.percentile(s, 95): linear interpolation at the position 0.95 * (len - 1).
Percentile95(s) ==
    LET a == Sorted(s)
        pos == 19 * (Len(s) - 1)
        lo == pos \div 20 + 1
        fr == pos % 20
    IN IF fr = 0 THEN Whole(a[lo])
       ELSE Frac(20 * a[lo] + fr * (a[lo + 1] - a[lo]), 20)

\* round(x, 1), in tenths; a tie goes to the even tenth (Python rounds the
\* binary value, which differs only for ties that are inexact in binary).
Round1(q) ==
    LET t == 10 * q.n
        fl == t \div q.d
        r2 == 2 * (t % q.d)
    IN IF r2 < q.d THEN fl
       ELSE IF r2 > q.d THEN fl + 1
       ELSE IF fl % 2 = 0 THEN fl ELSE fl + 1

\* Variant of lines 154-166 without the test count > 0.
AvgDays_NoGuard(days, count) == Frac(SumSeq(days), count)

\* Lines 154-155 and 158 (pass), 161-162 and 165 (fail).
AvgDays(days, count) ==
    IF count > 0 THEN Frac(SumSeq(days), count) ELSE Whole(0)

\* Lines 154, 156 and 159 (pass), 161, 163 and 166 (fail).
MedianDays(days, count) ==
    IF count > 0 THEN Median(days) ELSE Whole(0)

\* Lines 176-178: (count / num_simulations) * 100.
Rate(count, c) == Frac(count * 100, c.num_simulations)

NoResult == [returned |-> FALSE]

\* Lines 174-198. The keys "Risk ($)", "Pass Rate (%)", ... are spelled as
\* identifiers; the rounded values are in tenths.
ResultDict(c) ==
    [returned |-> TRUE,
     Risk |-> c.risk_val,
     RiskPct |-> Frac(c.risk_val * 100, c.account_size),
     TradesDay |-> c.trades_day_val,
     PassRate |-> Rate(pass_count, c),
     FailRate |-> Rate(fail_count, c),
     TimeoutRate |-> Rate(timeout_count, c),
     AvgDaysPass |-> Round1(AvgDays(all_pass_days, pass_count)),
     MedianDaysPass |-> Round1(MedianDays(all_pass_days, pass_count)),
     AvgDaysFail |-> Round1(AvgDays(all_fail_days, fail_count)),
     MedianDaysFail |-> Round1(MedianDays(all_fail_days, fail_count)),
     AvgMaxWinStreak |-> Round1(Frac(SumSeq(all_max_win_streaks), c.num_simulations)),
     AvgMaxLossStreak |-> Round1(Frac(SumSeq(all_max_loss_streaks), c.num_simulations)),
     WorstCaseStreak95 |-> Round1(Percentile95(all_max_loss_streaks)),
     RawData |-> [PnL |-> all_final_pnl,
                  PassDays |-> all_pass_days,
                  FailDays |-> all_fail_days,
                  WinStreaks |-> all_max_win_streaks,
                  LossStreaks |-> all_max_loss_streaks]]

\* The divisors of lines 152-172, in the order the code divides.
Divisors(c) ==
    <<AvgDays(all_pass_days, pass_count).d,
      AvgDays(all_fail_days, fail_count).d,
      c.num_simulations,
      c.account_size>>

\* ------------------------------------------------ run_visualization_sim
MaxViz == 2

\* Lines 208-213. day, daily_start_equity and day_status are assigned by the
\* first day; drawn counts the calls of np.random.rand() of this trial.
NewViz(c, sim_id) ==
    [pc |-> "day_loop",
     sim_id |-> sim_id,
     equity |-> c.account_size,
     high_water_mark |-> c.account_size,
     status |-> "Timeout",
     current_dd_limit |-> c.account_size - c.max_total_dd,
     curve |-> <<[Day |-> 0, Equity |-> c.account_size, SimID |-> sim_id,
                  Status |-> "In Progress"]>>,
     day |-> 0,
     daily_start_equity |-> c.account_size,
     day_status |-> "In Progress",
     trade |-> 0,
     drawn |-> 0]

\* Lines 215-219: the head of the day loop (days 1..max_days) and of the
\* trade loop.
VizDayLoop(v, c) ==
    IF v.day + 1 <= c.max_days
    THEN [v EXCEPT !.day = v.day + 1,
                   !.daily_start_equity = v.equity,
                   !.day_status = "In Progress",
                   !.trade = 0,
                   !.pc = IF c.trades_day_val > 0 THEN "trade" ELSE "day_end"]
    ELSE [v EXCEPT !.pc = "finish"]

\* Lines 221-222.
VizApplyOutcome(v, c, is_win) ==
    IF is_win
    THEN [v EXCEPT !.equity = v.equity + c.risk_val * c.reward_ratio]
    ELSE [v EXCEPT !.equity = v.equity - c.risk_val]

\* Lines 224-227.
VizUpdateHighWater(v, c) ==
    IF v.equity > v.high_water_mark
    THEN [v EXCEPT !.high_water_mark = v.equity,
                   !.current_dd_limit =
                       IF c.trailing_type = "Trailing from High Water Mark"
                       THEN v.equity - c.max_total_dd
                       ELSE v.current_dd_limit]
    ELSE v

\* Line 203.
VizPersonalLimitUsd(c) ==
    IF c.daily_limit_r > 0 THEN c.daily_limit_r * c.risk_val ELSE 0

\* Variant of lines 229-240 without the personal breaker of lines 236-237.
VizExitCheck_NoBreaker(v, c) ==
    LET current_daily_loss == v.daily_start_equity - v.equity IN
    IF v.equity <= v.current_dd_limit THEN "total_dd"
    ELSE IF current_daily_loss >= c.max_daily_dd THEN "daily_dd"
    ELSE IF v.equity >= c.account_size + c.profit_target THEN "target"
    ELSE "none"

\* Lines 229-240: which break, if any, ends the trade loop.
VizExitCheck(v, c) ==
    LET current_daily_loss == v.daily_start_equity - v.equity IN
    IF v.equity <= v.current_dd_limit THEN "total_dd"
    ELSE IF current_daily_loss >= c.max_daily_dd THEN "daily_dd"
    ELSE IF VizPersonalLimitUsd(c) > 0 /\ current_daily_loss >= VizPersonalLimitUsd(c)
         THEN "personal"
    ELSE IF v.equity >= c.account_size + c.profit_target THEN "target"
    ELSE "none"

\* Lines 220-240: one iteration of the trade loop.
VizTradeStep(v, c, draw) ==
    LET v1 == VizUpdateHighWater(VizApplyOutcome(v, c, draw < c.win_rate), c)
        exit == VizExitCheck(v1, c)
        st == CASE exit \in {"total_dd", "daily_dd"} -> "Failed"
                [] exit = "target" -> "Passed"
                [] OTHER -> "unchanged"
    IN [v1 EXCEPT !.status = IF st = "unchanged" THEN v1.status ELSE st,
                  !.day_status = IF st = "unchanged" THEN v1.day_status ELSE st,
                  !.trade = v.trade + 1,
                  !.drawn = v.drawn + 1,
                  !.pc = IF exit # "none" \/ v.trade + 1 >= c.trades_day_val
                         THEN "day_end" ELSE "trade"]

\* Lines 242-245.
VizDayEnd(v) ==
    [v EXCEPT !.curve = Append(v.curve, [Day |-> v.day, Equity |-> v.equity,
                                         SimID |-> v.sim_id, Status |-> v.status]),
              !.pc = IF v.day_status # "In Progress" THEN "finish" ELSE "day_loop"]

\* Variant of lines 247-249 that leaves the labels as appended.
Relabel_Keep(curve) == curve

\* Lines 247-249: every point takes the Status of the last one.
Relabel(curve) ==
    [i \in 1..Len(curve) |-> [curve[i] EXCEPT !.Status = curve[Len(curve)].Status]]

\* ---------------------------------------------------- Run Full Analysis
MaxList == 2

\* The pieces risk_input.split(',') and trades_input.split(',') can hand to
\* float() and int() (lines 264-265), already stripped.
RiskTokens == {"1", "2", "x"}
TradeTokens == {"0", "1", "2", "2.5"}

\* float(x.strip()), line 264: the number, or ok = FALSE for a ValueError.
FloatOf(tok) ==
    CASE tok = "1" -> [ok |-> TRUE, val |-> 1]
      [] tok = "2" -> [ok |-> TRUE, val |-> 2]
      [] OTHER -> [ok |-> FALSE, val |-> 0]

\* int(x.strip()), line 265: a text with a decimal point is a ValueError.
IntOf(tok) ==
    CASE tok = "0" -> [ok |-> TRUE, val |-> 0]
      [] tok = "1" -> [ok |-> TRUE, val |-> 1]
      [] tok = "2" -> [ok |-> TRUE, val |-> 2]
      [] OTHER -> [ok |-> FALSE, val |-> 0]

\* The two list comprehensions of lines 264-265.
FloatList(toks) == [k \in 1..Len(toks) |-> FloatOf(toks[k]).val]
IntList(toks) == [k \in 1..Len(toks) |-> IntOf(toks[k]).val]
ParseFails ==
    \/ \E k \in 1..Len(risk_input) : ~FloatOf(risk_input[k]).ok
    \/ \E k \in 1..Len(trades_input) : ~IntOf(trades_input[k]).ok

\* Variant of line 266 that leaves the lists as typed.
ListSort_Keep(s) == s

\* Line 266: list.sort().
ListSort(s) == SortSeq(s, LAMBDA a, b : a < b)

\* The sidebar values a press of the button can find (lines 32-63): the
\* number inputs of lines 61-63 have no minimum, so 0 is among them. risk_val
\* and trades_day_val are arguments of run_monte_carlo and 0 before a call.
SweepConfigs ==
    [account_size : AccountSizes,
     profit_target : {3},
     max_daily_dd : {2},
     max_total_dd : {2},
     trailing_type : {"Static"},
     win_rate : {100},
     reward_ratio : {1},
     risk_val : {0},
     trades_day_val : {0},
     daily_limit_r : {0},
     max_days : {0, 1},
     num_simulations : {0, 1}]

\* Lines 19-22: nothing stored yet; None is the empty sequence.
NothingStored == [sim_results |-> << >>, sim_params |-> << >>]

\* What an earlier press of the button has stored (lines 292-299).
EarlierStored ==
    [sim_results |-> <<[Risk |-> 1, TradesDay |-> 1]>>,
     sim_params |-> <<[sims |-> 1, days |-> 1]>>]

\* The locals of the handler before the button is pressed; before is the
\* session_state the press found.
IdleSweep ==
    [pc |-> "idle",
     risk_list |-> << >>, trades_list |-> << >>,
     results_summary |-> << >>,
     total_steps |-> 0, current_step |-> 0,
     r |-> 1, t |-> 1,
     before |-> NothingStored]

\* df_summary[cols], lines 286-292: the row of a result without "Raw Data".
Cols(res) ==
    [Risk |-> res.Risk, RiskPct |-> res.RiskPct, TradesDay |-> res.TradesDay,
     PassRate |-> res.PassRate, AvgDaysPass |-> res.AvgDaysPass,
     MedianDaysPass |-> res.MedianDaysPass, FailRate |-> res.FailRate,
     AvgDaysFail |-> res.AvgDaysFail, MedianDaysFail |-> res.MedianDaysFail,
     TimeoutRate |-> res.TimeoutRate, AvgMaxWinStreak |-> res.AvgMaxWinStreak,
     AvgMaxLossStreak |-> res.AvgMaxLossStreak,
     WorstCaseStreak95 |-> res.WorstCaseStreak95]

\* Lines 295-299.
ParamsSnapshot(c) ==
    [acc |-> c.account_size, tgt |-> c.profit_target, mdd |-> c.max_daily_dd,
     mtd |-> c.max_total_dd, type |-> c.trailing_type, win |-> c.win_rate,
     rr |-> c.reward_ratio, r_lim |-> c.daily_limit_r,
     sims |-> c.num_simulations, days |-> c.max_days,
     r_in |-> risk_input, t_in |-> trades_input]

\* Lines 286-299: what the handler stores once both loops are over.
Stored(results, c) ==
    [sim_results |-> [k \in 1..Len(results) |-> Cols(results[k])],
     sim_params |-> <<ParamsSnapshot(c)>>]

\* Variant of lines 301-302 that stores the rows gathered before the error.
AfterException_StorePartial(ss, s, c) == Stored(s.results_summary, c)

\* Lines 301-302 and the propagation of any other exception: neither path
\* assigns to st.session_state.
AfterException(ss, s, c) == ss

\* ------------------------------------------------------- run_monte_carlo
\* The state when the caller run is about to start: lines 72-81 for
\* run_monte_carlo, line 205 for run_visualization_sim called with n_viz = nv.
InitAs(run, nv) ==
    /\ cfg \in Configs
    /\ pc = "trial_loop"
    /\ sim = NewSim(cfg)
    /\ sim_no = 0
    /\ pass_count = 0 /\ fail_count = 0 /\ timeout_count = 0
    /\ all_pass_days = << >> /\ all_fail_days = << >> /\ all_final_pnl = << >>
    /\ all_max_win_streaks = << >> /\ all_max_loss_streaks = << >>
    /\ result = NoResult
    /\ error = "none"
    /\ running = run
    /\ tape = << >>
    /\ off = NewSim(cfg)
    /\ n_viz = nv
    /\ viz = [NewViz(cfg, 0) EXCEPT !.pc = "sim_loop"]
    /\ all_curves = << >>
    /\ risk_input = << >> /\ trades_input = << >>
    /\ session_state = NothingStored
    /\ sweep = IdleSweep

Init == InitAs("mc", 0)

\* Lines 83-92.
StartTrial ==
    /\ running = "mc" /\ pc = "trial_loop"
    /\ sim_no < cfg.num_simulations
    /\ sim' = NewSim(cfg)
    /\ pc' = "in_trial"
    /\ UNCHANGED <<cfg, running, sim_no, aggVars, result, error, replayVars, vizVars, sweepVars>>

StartDay ==
    /\ running = "mc" /\ pc = "in_trial" /\ sim.pc = "day_loop"
    /\ sim' = DayLoop(sim, cfg)
    /\ UNCHANGED <<cfg, running, pc, sim_no, aggVars, result, error, replayVars, vizVars, sweepVars>>

Trade ==
    /\ running = "mc" /\ pc = "in_trial" /\ sim.pc = "trade"
    /\ \E draw \in Draws : sim' = TradeStep(sim, cfg, draw)
    /\ UNCHANGED <<cfg, running, pc, sim_no, aggVars, result, error, replayVars, vizVars, sweepVars>>

EndDay ==
    /\ running = "mc" /\ pc = "in_trial" /\ sim.pc = "day_end"
    /\ sim' = DayEnd(sim)
    /\ UNCHANGED <<cfg, running, pc, sim_no, aggVars, result, error, replayVars, vizVars, sweepVars>>

\* Lines 131-150.
Collect ==
    /\ running = "mc" /\ pc = "in_trial" /\ sim.pc = "collect"
    /\ all_max_win_streaks' = Append(all_max_win_streaks, sim.sim_max_win_streak)
    /\ all_max_loss_streaks' = Append(all_max_loss_streaks, sim.sim_max_loss_streak)
    /\ pass_count' = IF CountsPass(sim.status) THEN pass_count + 1 ELSE pass_count
    /\ all_pass_days' = IF CountsPass(sim.status)
                        THEN Append(all_pass_days, sim.day + 1) ELSE all_pass_days
    /\ fail_count' = IF CountsFail(sim.status) THEN fail_count + 1 ELSE fail_count
    /\ all_fail_days' = IF CountsFail(sim.status)
                        THEN Append(all_fail_days, sim.day + 1) ELSE all_fail_days
    /\ timeout_count' = IF CountsTimeout(sim.status)
                        THEN timeout_count + 1 ELSE timeout_count
    /\ all_final_pnl' = Append(all_final_pnl,
                               [PnL |-> sim.equity - cfg.account_size,
                                Status |-> OutcomeStatus(sim.status)])
    /\ sim_no' = sim_no + 1
    /\ pc' = IF sim_no + 1 < cfg.num_simulations THEN "trial_loop" ELSE "stats"
    /\ UNCHANGED <<cfg, running, sim, result, error, replayVars, vizVars, sweepVars>>

\* Lines 152-198: the statistics and the returned dictionary, or the
\* exception of the first division by zero.
Statistics ==
    /\ running = "mc" /\ pc = "stats"
    /\ IF \E i \in 1..Len(Divisors(cfg)) : Divisors(cfg)[i] = 0
       THEN /\ error' = "ZeroDivisionError"
            /\ pc' = "raised"
            /\ UNCHANGED result
       ELSE /\ result' = ResultDict(cfg)
            /\ pc' = "done"
            /\ UNCHANGED error
    /\ UNCHANGED <<cfg, running, sim, sim_no, aggVars, replayVars, vizVars, sweepVars>>

Next ==
    \/ StartTrial
    \/ StartDay
    \/ Trade
    \/ EndDay
    \/ Collect
    \/ Statistics

Spec == Init /\ [][Next]_vars

\* ------------------------------------------- run_visualization_sim, run
\* Line 207.
VizStartSim ==
    /\ running = "viz" /\ viz.pc = "sim_loop"
    /\ viz' = NewViz(cfg, viz.sim_id)
    /\ UNCHANGED <<cfg, running, mcVars, replayVars, n_viz, all_curves, sweepVars>>

VizStartDay ==
    /\ running = "viz" /\ viz.pc = "day_loop"
    /\ viz' = VizDayLoop(viz, cfg)
    /\ UNCHANGED <<cfg, running, mcVars, replayVars, n_viz, all_curves, sweepVars>>

VizTrade ==
    /\ running = "viz" /\ viz.pc = "trade"
    /\ \E draw \in Draws : viz' = VizTradeStep(viz, cfg, draw)
    /\ UNCHANGED <<cfg, running, mcVars, replayVars, n_viz, all_curves, sweepVars>>

VizEndDay ==
    /\ running = "viz" /\ viz.pc = "day_end"
    /\ viz' = VizDayEnd(viz)
    /\ UNCHANGED <<cfg, running, mcVars, replayVars, n_viz, all_curves, sweepVars>>

\* Lines 247-251, and line 253 after the last trial.
VizFinish ==
    /\ running = "viz" /\ viz.pc = "finish"
    /\ all_curves' = all_curves \o Relabel(viz.curve)
    /\ viz' = [viz EXCEPT !.curve = Relabel(viz.curve),
                          !.sim_id = viz.sim_id + 1,
                          !.pc = IF viz.sim_id + 1 < n_viz
                                 THEN "sim_loop" ELSE "returned"]
    /\ UNCHANGED <<cfg, running, mcVars, replayVars, n_viz, sweepVars>>

InitViz ==
    /\ \E nv \in 1..MaxViz : InitAs("viz", nv)
    /\ cfg.num_simulations = 1

NextViz ==
    \/ VizStartSim
    \/ VizStartDay
    \/ VizTrade
    \/ VizEndDay
    \/ VizFinish

SpecViz == InitViz /\ [][NextViz]_vars

\* ------------------------------------------ one draw sequence, two runs
\* The trial of run_monte_carlo is run on a recorded draw sequence: the k-th
\* call of np.random.rand() in a run returns tape[k], and a call past the end
\* of the tape draws a new value and records it.
Consumed(s) == SumSeq(s.executed)

ReadTape(k, draw) ==
    /\ k <= Len(tape) => draw = tape[k]
    /\ tape' = IF k <= Len(tape) THEN tape ELSE Append(tape, draw)

\* The same configuration with the personal breaker disabled.
Disabled(c) == [c EXCEPT !.daily_limit_r = 0]

InitReplay ==
    /\ Init
    /\ cfg.num_simulations = 1

ReplayTrade ==
    /\ running = "mc" /\ pc = "in_trial" /\ sim.pc = "trade"
    /\ \E draw \in Draws :
          /\ ReadTape(Consumed(sim) + 1, draw)
          /\ sim' = TradeStep(sim, cfg, draw)
    /\ UNCHANGED <<cfg, running, pc, sim_no, aggVars, result, error, off, vizVars, sweepVars>>

\* The first run is over: the second one starts from line 84 again.
HandOff ==
    /\ running = "mc" /\ pc = "stats"
    /\ running' = "off"
    /\ off' = NewSim(Disabled(cfg))
    /\ UNCHANGED <<cfg, mcVars, tape, vizVars, sweepVars>>

OffStartDay ==
    /\ running = "off" /\ off.pc = "day_loop"
    /\ off' = DayLoop(off, Disabled(cfg))
    /\ UNCHANGED <<cfg, running, mcVars, tape, vizVars, sweepVars>>

OffTrade ==
    /\ running = "off" /\ off.pc = "trade"
    /\ \E draw \in Draws :
          /\ ReadTape(Consumed(off) + 1, draw)
          /\ off' = TradeStep(off, Disabled(cfg), draw)
    /\ UNCHANGED <<cfg, running, mcVars, vizVars, sweepVars>>

OffEndDay ==
    /\ running = "off" /\ off.pc = "day_end"
    /\ off' = DayEnd(off)
    /\ UNCHANGED <<cfg, running, mcVars, tape, vizVars, sweepVars>>

\* The second run is over: run_visualization_sim is called for one trial.
HandViz ==
    /\ running = "off" /\ off.pc = "collect"
    /\ running' = "viz"
    /\ n_viz' = 1
    /\ viz' = [NewViz(cfg, 0) EXCEPT !.pc = "sim_loop"]
    /\ UNCHANGED <<cfg, mcVars, replayVars, all_curves, sweepVars>>

ReplayVizTrade ==
    /\ running = "viz" /\ viz.pc = "trade"
    /\ \E draw \in Draws :
          /\ ReadTape(viz.drawn + 1, draw)
          /\ viz' = VizTradeStep(viz, cfg, draw)
    /\ UNCHANGED <<cfg, running, mcVars, off, n_viz, all_curves, sweepVars>>

NextReplay ==
    \/ StartTrial
    \/ StartDay
    \/ ReplayTrade
    \/ EndDay
    \/ Collect
    \/ HandOff
    \/ OffStartDay
    \/ OffTrade
    \/ OffEndDay
    \/ HandViz
    \/ VizStartSim
    \/ VizStartDay
    \/ ReplayVizTrade
    \/ VizEndDay
    \/ VizFinish

SpecReplay == InitReplay /\ [][NextReplay]_vars

\* ---------------------------------------------------- Run Full Analysis
\* The button has just been pressed (line 262) with some sidebar values, some
\* text in the two list inputs and some session_state.
InitSweep ==
    /\ cfg \in SweepConfigs
    /\ pc = "trial_loop"
    /\ sim = NewSim(cfg)
    /\ sim_no = 0
    /\ pass_count = 0 /\ fail_count = 0 /\ timeout_count = 0
    /\ all_pass_days = << >> /\ all_fail_days = << >> /\ all_final_pnl = << >>
    /\ all_max_win_streaks = << >> /\ all_max_loss_streaks = << >>
    /\ result = NoResult
    /\ error = "none"
    /\ running = "mc"
    /\ tape = << >>
    /\ off = NewSim(cfg)
    /\ n_viz = 0
    /\ viz = [NewViz(cfg, 0) EXCEPT !.pc = "sim_loop"]
    /\ all_curves = << >>
    /\ \E n \in 1..MaxList : risk_input \in [1..n -> RiskTokens]
    /\ \E n \in 1..MaxList : trades_input \in [1..n -> TradeTokens]
    /\ session_state \in {NothingStored, EarlierStored}
    /\ sweep = [IdleSweep EXCEPT !.pc = "clicked", !.before = session_state]

\* Lines 263-273, and lines 301-302 when float() or int() raises.
SweepParse ==
    /\ sweep.pc = "clicked"
    /\ IF ParseFails
       THEN /\ sweep' = [sweep EXCEPT !.pc = "error_shown"]
            /\ session_state' = AfterException(session_state, sweep, cfg)
       ELSE /\ sweep' = [sweep EXCEPT
                    !.pc = "cell",
                    !.risk_list = ListSort(FloatList(risk_input)),
                    !.trades_list = ListSort(IntList(trades_input)),
                    !.results_summary = << >>,
                    !.total_steps = Len(risk_input) * Len(trades_input),
                    !.current_step = 0,
                    !.r = 1, !.t = 1]
            /\ UNCHANGED session_state
    /\ UNCHANGED <<cfg, running, mcVars, replayVars, vizVars, risk_input, trades_input>>

\* Lines 275-279 up to the call, and lines 67-81 of the callee; the loop of
\* line 83 has no pass when num_simulations is not positive.
SweepCall ==
    /\ sweep.pc = "cell"
    /\ cfg' = [cfg EXCEPT !.risk_val = sweep.risk_list[sweep.r],
                          !.trades_day_val = sweep.trades_list[sweep.t]]
    /\ sweep' = [sweep EXCEPT !.pc = "in_cell", !.current_step = @ + 1]
    /\ pc' = IF cfg.num_simulations > 0 THEN "trial_loop" ELSE "stats"
    /\ sim' = NewSim(cfg')
    /\ sim_no' = 0
    /\ pass_count' = 0 /\ fail_count' = 0 /\ timeout_count' = 0
    /\ all_pass_days' = << >> /\ all_fail_days' = << >> /\ all_final_pnl' = << >>
    /\ all_max_win_streaks' = << >> /\ all_max_loss_streaks' = << >>
    /\ result' = NoResult
    /\ error' = "none"
    /\ UNCHANGED <<running, replayVars, vizVars, risk_input, trades_input, session_state>>

\* Lines 279-281, and the step of the two loops of lines 275-276.
SweepReturn ==
    /\ sweep.pc = "in_cell" /\ pc = "done"
    /\ LET last_t == sweep.t = Len(sweep.trades_list)
           last_r == sweep.r = Len(sweep.risk_list)
       IN sweep' = [sweep EXCEPT
              !.results_summary = Append(@, result),
              !.t = IF last_t THEN 1 ELSE @ + 1,
              !.r = IF last_t THEN @ + 1 ELSE @,
              !.pc = IF last_t /\ last_r THEN "save" ELSE "cell"]
    /\ UNCHANGED <<cfg, running, mcVars, replayVars, vizVars, risk_input, trades_input,
                   session_state>>

\* run_monte_carlo raised inside the try of line 263: the handler of line
\* 301 takes a ValueError, anything else ends the script run.
SweepRaise ==
    /\ sweep.pc = "in_cell" /\ pc = "raised"
    /\ sweep' = [sweep EXCEPT
           !.pc = IF error = "ValueError" THEN "error_shown" ELSE "crashed"]
    /\ session_state' = AfterException(session_state, sweep, cfg)
    /\ UNCHANGED <<cfg, running, mcVars, replayVars, vizVars, risk_input, trades_input>>

\* Lines 283-299.
SweepSave ==
    /\ sweep.pc = "save"
    /\ session_state' = Stored(sweep.results_summary, cfg)
    /\ sweep' = [sweep EXCEPT !.pc = "saved"]
    /\ UNCHANGED <<cfg, running, mcVars, replayVars, vizVars, risk_input, trades_input>>

NextSweep ==
    \/ SweepParse
    \/ SweepCall
    \/ StartTrial
    \/ StartDay
    \/ Trade
    \/ EndDay
    \/ Collect
    \/ Statistics
    \/ SweepReturn
    \/ SweepRaise
    \/ SweepSave

SpecSweep == InitSweep /\ [][NextSweep]_vars

\* ------------------------------------------------------------ properties
\* The four exit conditions of lines 116-127, each read off the trial's state.
TotalBreach(s) == s.equity <= s.current_dd_limit
DailyBreach(s, c) == s.daily_start_equity - s.equity >= c.max_daily_dd
BreakerHit(s, c) ==
    c.daily_limit_r > 0 /\ s.daily_start_equity - s.equity >= c.daily_limit_r * c.risk_val
TargetHit(s, c) == s.equity >= c.account_size + c.profit_target

\* The trial has executed a trade and nothing since.
AfterTrade(s) == s.trade > 0 /\ s.pc \in {"trade", "day_end"}

\* C1: after every trade the exit conditions decide in the order total
\* drawdown, daily drawdown, personal breaker, profit target: a trade that
\* breaches a drawdown rule and reaches the target leaves the trial Failed, and
\* a trade that trips the breaker and reaches the target ends the day with the
\* trial still In Progress.
C1_ExitPriority ==
    (pc = "in_trial" /\ AfterTrade(sim)) =>
        /\ TotalBreach(sim) =>
              sim.exit = "total_dd" /\ sim.status = "Failed" /\ sim.pc = "day_end"
        /\ (~TotalBreach(sim) /\ DailyBreach(sim, cfg)) =>
              sim.exit = "daily_dd" /\ sim.status = "Failed" /\ sim.pc = "day_end"
        /\ (~TotalBreach(sim) /\ ~DailyBreach(sim, cfg) /\ BreakerHit(sim, cfg)) =>
              sim.exit = "personal" /\ sim.status = "In Progress" /\ sim.pc = "day_end"
        /\ (~TotalBreach(sim) /\ ~DailyBreach(sim, cfg) /\ ~BreakerHit(sim, cfg)
              /\ TargetHit(sim, cfg)) =>
              sim.exit = "target" /\ sim.status = "Passed" /\ sim.pc = "day_end"
        /\ (~TotalBreach(sim) /\ ~DailyBreach(sim, cfg) /\ ~BreakerHit(sim, cfg)
              /\ ~TargetHit(sim, cfg)) =>
              sim.exit = "none" /\ sim.status = "In Progress"

C1_Witness ==
    /\ pc = "in_trial" /\ AfterTrade(sim)
    /\ TotalBreach(sim) \/ DailyBreach(sim, cfg)
    /\ TargetHit(sim, cfg)
    /\ sim.status = "Failed"

\* C1, second case: breaker and target on the same trade.
C1_WitnessBreaker ==
    /\ pc = "in_trial" /\ AfterTrade(sim)
    /\ BreakerHit(sim, cfg) /\ TargetHit(sim, cfg)
    /\ sim.exit = "personal" /\ sim.status = "In Progress"

Last(s) == s[Len(s)]

\* C2: a trial's status changes only from In Progress, to Passed on a reached
\* target or to Failed on a drawdown breach; once it is Passed or Failed the
\* trial executes no further trade or day; and the recorded outcome is that
\* status, or Timeout exactly when all max_days days ran with the status
\* still In Progress.
C2_Step ==
    /\ pc = "in_trial" =>
          /\ sim'.status # sim.status =>
                /\ sim.status = "In Progress"
                /\ \/ sim'.status = "Passed" /\ TargetHit(sim', cfg)
                   \/ sim'.status = "Failed"
                        /\ (TotalBreach(sim') \/ DailyBreach(sim', cfg))
          /\ sim.status # "In Progress" =>
                /\ sim'.status = sim.status
                /\ sim'.equity = sim.equity
                /\ sim'.day = sim.day
                /\ sim'.executed = sim.executed
    /\ all_final_pnl' # all_final_pnl =>
          /\ Len(all_final_pnl') = Len(all_final_pnl) + 1
          /\ Last(all_final_pnl').Status \in {"Passed", "Failed", "Timeout"}
          /\ sim.status \in {"Passed", "Failed"} =>
                Last(all_final_pnl').Status = sim.status
          /\ Last(all_final_pnl').Status = "Timeout" <=>
                (sim.status = "In Progress" /\ Len(sim.executed) = cfg.max_days)

C2_StatusTransitions == [][C2_Step]_vars

C2_Witness ==
    /\ Len(all_final_pnl) = 2
    /\ all_final_pnl[1].Status = "Passed"
    /\ all_final_pnl[2].Status = "Timeout"

\* C3: within a trial high_water_mark never decreases; the drawdown floor
\* never decreases under Trailing mode and stays account_size - max_total_dd
\* under Static mode.
C3_Step ==
    pc = "in_trial" =>
        /\ sim'.high_water_mark >= sim.high_water_mark
        /\ cfg.trailing_type = "Trailing from High Water Mark" =>
              sim'.current_dd_limit >= sim.current_dd_limit
        /\ cfg.trailing_type = "Static" =>
              /\ sim.current_dd_limit = cfg.account_size - cfg.max_total_dd
              /\ sim'.current_dd_limit = cfg.account_size - cfg.max_total_dd

C3_Monotone == [][C3_Step]_vars

C3_Witness ==
    /\ pc = "in_trial" /\ AfterTrade(sim)
    /\ sim.high_water_mark > cfg.account_size
    /\ sim.equity < sim.high_water_mark
    /\ sim.current_dd_limit > cfg.account_size - cfg.max_total_dd
    /\ sim.status = "In Progress"

CountOf(recs, st) == Cardinality({i \in 1..Len(recs) : recs[i].Status = st})

\* C4: every trial is counted in exactly one bucket, so after all trials
\* pass_count + fail_count + timeout_count = num_simulations and the three
\* rates add up to 100.
C4_Partition ==
    /\ pass_count + fail_count + timeout_count = sim_no
    /\ pass_count = CountOf(all_final_pnl, "Passed")
    /\ fail_count = CountOf(all_final_pnl, "Failed")
    /\ timeout_count = CountOf(all_final_pnl, "Timeout")
    /\ Len(all_final_pnl) = sim_no
    /\ pc \in {"stats", "done"} =>
          pass_count + fail_count + timeout_count = cfg.num_simulations
    /\ pc = "done" =>
          /\ result.PassRate.d = cfg.num_simulations
          /\ result.FailRate.d = cfg.num_simulations
          /\ result.TimeoutRate.d = cfg.num_simulations
          /\ result.PassRate.n + result.FailRate.n + result.TimeoutRate.n
                = 100 * cfg.num_simulations

C4_Witness ==
    /\ pc = "done"
    /\ pass_count > 0 /\ timeout_count > 0
    /\ result.PassRate.n > 0 /\ result.TimeoutRate.n > 0

\* ceil(a / b) for b > 0.
CeilDiv(a, b) == -((-a) \div b)

\* ceil(profit_target / (risk_per_trade x reward_multiple x trades_per_day)).
DaysNeeded(c) ==
    CeilDiv(c.profit_target, c.risk_val * c.reward_ratio * c.trades_day_val)

AllWins(c) == c.win_rate = 100 /\ c.reward_ratio > 0

AllPassedWithin(limit) ==
    /\ fail_count = 0 /\ timeout_count = 0
    /\ \A i \in 1..Len(all_final_pnl) : all_final_pnl[i].Status = "Passed"
    /\ \A i \in 1..Len(all_pass_days) : all_pass_days[i] <= limit

\* The rule amounts a challenge is meant to have: a positive profit target
\* and positive drawdown limits.
PositiveRules(c) ==
    c.profit_target > 0 /\ c.max_total_dd > 0 /\ c.max_daily_dd > 0

\* C5 as stated, read on the configurations with positive rule amounts: with
\* win_rate = 1.0 and reward_multiple > 0 every trial ends Passed, on a day no
\* later than ceil(profit_target / (risk x reward x trades_per_day)).
C5_AsStated ==
    (AllWins(cfg) /\ PositiveRules(cfg)) => AllPassedWithin(DaysNeeded(cfg))

\* C5 (amended): with win_rate = 1.0, reward_multiple > 0, positive rule
\* amounts and max_days no smaller than
\* ceil(profit_target / (risk x reward x trades_per_day)), every trial ends
\* Passed on a day no later than that number.
C5_AllWinsPass ==
    (AllWins(cfg) /\ PositiveRules(cfg) /\ cfg.max_days >= DaysNeeded(cfg))
        => AllPassedWithin(DaysNeeded(cfg))

C5_Witness ==
    /\ AllWins(cfg) /\ PositiveRules(cfg)
    /\ cfg.max_days >= DaysNeeded(cfg)
    /\ DaysNeeded(cfg) >= 2
    /\ pc = "done" /\ pass_count = cfg.num_simulations
    /\ all_pass_days[1] = DaysNeeded(cfg)

\* C6: the personal breaker fires only when daily_limit_r > 0 and the day's
\* loss has reached daily_limit_r x risk_val, never with the limit at 0; when
\* it fires the status stays In Progress, only the rest of the day is skipped,
\* and a next day, if one remains, starts from the current equity with no
\* trade of its allowance used.
C6_Fires ==
    /\ cfg.daily_limit_r = 0 => sim.exit # "personal"
    /\ (pc = "in_trial" /\ sim.exit = "personal") =>
          /\ sim.status = "In Progress"
          /\ AfterTrade(sim) => (BreakerHit(sim, cfg) /\ sim.pc = "day_end")

C6_Step ==
    (pc = "in_trial" /\ sim.exit = "personal") =>
        /\ sim.pc = "day_end" => sim' = [sim EXCEPT !.pc = "day_loop"]
        /\ (sim.pc = "day_loop" /\ sim.day + 1 < cfg.max_days) =>
              /\ sim'.pc = "trade"
              /\ sim'.day = sim.day + 1
              /\ sim'.daily_start_equity = sim.equity
              /\ sim'.equity = sim.equity
              /\ sim'.trade = 0
              /\ sim'.status = "In Progress"
        /\ (sim.pc = "day_loop" /\ sim.day + 1 >= cfg.max_days) =>
              sim' = [sim EXCEPT !.pc = "collect"]

C6_Breaker == []C6_Fires /\ [][C6_Step]_vars

C6_Witness ==
    /\ pc = "in_trial"
    /\ sim.exit = "personal" /\ sim.pc = "trade"
    /\ sim.day >= 1 /\ sim.trade = 0
    /\ sim.executed[sim.day] < cfg.trades_day_val
    /\ sim.daily_start_equity = sim.equity
    /\ sim.status = "In Progress"

\* C10: when no trial lands in the Passed (Failed) bucket, run_monte_carlo
\* still returns its result, with that bucket's rate 0 and its average and
\* median day count 0, and raises nothing.
C10_EmptyBucket ==
    (pc \in {"done", "raised"}) =>
        /\ pass_count = 0 =>
              /\ pc = "done" /\ error = "none" /\ result.returned
              /\ result.PassRate.n = 0
              /\ result.AvgDaysPass = 0 /\ result.MedianDaysPass = 0
              /\ result.RawData.PassDays = << >>
        /\ fail_count = 0 =>
              /\ pc = "done" /\ error = "none" /\ result.returned
              /\ result.FailRate.n = 0
              /\ result.AvgDaysFail = 0 /\ result.MedianDaysFail = 0
              /\ result.RawData.FailDays = << >>
        /\ timeout_count = 0 =>
              /\ pc = "done" /\ error = "none" /\ result.returned
              /\ result.TimeoutRate.n = 0

C10_Witness ==
    /\ pc = "done" /\ result.returned
    /\ pass_count = 0 /\ fail_count > 0
    /\ result.AvgDaysPass = 0 /\ result.AvgDaysFail > 0

\* Trades executed on day d (1 = the first day) of a trial.
TradesOn(s, d) == IF d <= Len(s.executed) THEN s.executed[d] ELSE 0

\* No day before day d of the trial was ended by the personal breaker.
NoBreakerBefore(s, d) ==
    \A e \in 1..(d - 1) : e <= Len(s.exits) => s.exits[e] # "personal"

BothRunsOver == running \in {"off", "viz"} /\ off.pc = "collect"

\* C7 as stated, read on the configurations with positive rule amounts: on
\* the same draw sequence, on every day the run with the breaker enabled
\* executes at most as many trades as the run with it disabled.
C7_AsStated ==
    (BothRunsOver /\ PositiveRules(cfg)) =>
        \A d \in 1..cfg.max_days : TradesOn(sim, d) <= TradesOn(off, d)

\* C7 (amended): on the same draw sequence, on every day up to and including
\* the first day the breaker ends in the enabled run, the enabled run executes
\* at most as many trades as the disabled run, and exactly as many on the days
\* before it.
C7_UpToFirstBreak ==
    BothRunsOver =>
        \A d \in 1..cfg.max_days :
            NoBreakerBefore(sim, d) =>
                /\ TradesOn(sim, d) <= TradesOn(off, d)
                /\ (d <= Len(sim.exits) /\ sim.exits[d] # "personal") =>
                       TradesOn(sim, d) = TradesOn(off, d)

C7_Witness ==
    /\ BothRunsOver
    /\ cfg.daily_limit_r > 0
    /\ Len(sim.exits) >= 2 /\ sim.exits[1] = "personal"
    /\ TradesOn(sim, 1) < TradesOn(off, 1)
    /\ TradesOn(sim, 2) > TradesOn(off, 2)

VizReturned == running = "viz" /\ viz.pc = "returned"

\* C8: on the same configuration and the same draw sequence, a trial of
\* run_visualization_sim ends with the outcome, on the day and with the final
\* equity of the trial of run_monte_carlo.
C8_SameTrial ==
    VizReturned =>
        /\ Last(all_curves).Status = all_final_pnl[1].Status
        /\ Last(all_curves).Day = sim.day + 1
        /\ Last(all_curves).Equity = sim.equity
        /\ Last(all_curves).Equity - cfg.account_size = all_final_pnl[1].PnL
        /\ Last(all_curves).Status = "Passed" => all_pass_days = <<Last(all_curves).Day>>
        /\ Last(all_curves).Status = "Failed" => all_fail_days = <<Last(all_curves).Day>>

C8_Witness ==
    /\ VizReturned
    /\ sim.exits[1] = "personal"
    /\ Len(tape) > Len(sim.exits)
    /\ Last(all_curves).Status = "Passed"
    /\ Last(all_curves).Day = 2
    /\ all_final_pnl[1].Status = "Passed"

\* The points all_curves holds for trial id, in order.
Points(id) == SelectSeq(all_curves, LAMBDA p : p.SimID = id)

\* C9: the trajectory of every finished trial of run_visualization_sim has one
\* point per day boundary, Day = 0, 1, ..., d in order with d the last day
\* simulated, the day-0 point at account_size, and every point labelled with
\* the trial's final outcome, one of Passed, Failed, Timeout.
C9_Trajectory ==
    /\ \A id \in 0..(viz.sim_id - 1) :
          LET pts == Points(id) IN
          /\ Len(pts) >= 1
          /\ \A i \in 1..Len(pts) : pts[i].Day = i - 1
          /\ pts[1].Equity = cfg.account_size
          /\ Last(pts).Status \in {"Passed", "Failed", "Timeout"}
          /\ \A i \in 1..Len(pts) : pts[i].Status = Last(pts).Status
    /\ \A i \in 1..Len(all_curves) : all_curves[i].SimID < viz.sim_id
    /\ \A i \in 1..(Len(all_curves) - 1) :
          all_curves[i].SimID <= all_curves[i + 1].SimID
    /\ (viz.pc \in {"sim_loop", "returned"} /\ viz.sim_id > 0) =>
          /\ Len(Points(viz.sim_id - 1)) = viz.day + 1
          /\ Last(all_curves).Status =
                (IF viz.day_status = "In Progress" THEN "Timeout" ELSE viz.day_status)
          /\ Last(all_curves).Equity = viz.equity

C9_Witness ==
    /\ VizReturned /\ n_viz = 2
    /\ Len(Points(0)) = 3 /\ Points(0)[1].Status = "Passed"
    /\ Len(Points(1)) = 3 /\ Points(1)[1].Status = "Timeout"

\* ------------------------------------------------------------------ C11
\* The (risk, trades-per-day) tags of a list of results, in list order.
Tags(results) ==
    [k \in 1..Len(results) |-> <<results[k].Risk, results[k].TradesDay>>]

\* The cells of the grid over two lists, the first list on the outer axis.
Grid(rs, ts) ==
    [k \in 1..(Len(rs) * Len(ts)) |->
        <<rs[((k - 1) \div Len(ts)) + 1], ts[((k - 1) % Len(ts)) + 1]>>]

Occurrences(s, v) == Cardinality({k \in 1..Len(s) : s[k] = v})
Ascending(s) == \A k \in 1..(Len(s) - 1) : s[k] <= s[k + 1]
SameValues(s, u) ==
    /\ Len(s) = Len(u)
    /\ \A k \in 1..Len(s) : Occurrences(s, s[k]) = Occurrences(u, s[k])

SweepOver == sweep.pc \in {"save", "saved"}

\* Section 3 of the specification: what makes a configuration invalid.
Invalid(c) ==
    \/ c.num_simulations <= 0
    \/ c.max_days <= 0
    \/ c.trades_day_val <= 0
    \/ c.win_rate <= 0 \/ c.win_rate > 100

\* Every cell of the grid is a valid configuration.
ValidGrid ==
    /\ \A k \in 1..Len(sweep.trades_list) :
           ~Invalid([cfg EXCEPT !.trades_day_val = sweep.trades_list[k]])
    /\ \A k \in 1..Len(sweep.risk_list) : sweep.risk_list[k] > 0

\* C11 as stated: a completed sweep has one result per cell of the grid,
\* each tagged with its own pair, in the order the values were supplied
\* (read on the sweeps whose cells are all valid configurations).
C11_AsStated ==
    (SweepOver /\ ValidGrid) =>
        Tags(sweep.results_summary) = Grid(FloatList(risk_input), IntList(trades_input))

\* C11, amended: a completed sweep has one result per cell of the grid, each
\* tagged with its own pair, risk on the outer axis, and each axis runs
\* through the supplied values in ascending order whatever order they were
\* supplied in; the stored table has the same rows in the same order.
C11_SortedGrid ==
    SweepOver =>
        /\ Tags(sweep.results_summary) = Grid(sweep.risk_list, sweep.trades_list)
        /\ Ascending(sweep.risk_list)
        /\ Ascending(sweep.trades_list)
        /\ SameValues(sweep.risk_list, FloatList(risk_input))
        /\ SameValues(sweep.trades_list, IntList(trades_input))
        /\ sweep.pc = "saved" =>
               Tags(session_state.sim_results) = Tags(sweep.results_summary)

\* A completed sweep over two risk values and two frequencies, both typed in
\* descending order.
C11_Witness ==
    /\ sweep.pc = "saved"
    /\ risk_input = <<"2", "1">>
    /\ trades_input = <<"2", "1">>
    /\ Len(session_state.sim_results) = 4

\* ------------------------------------------------------------------ C12
\* C12: an invalid configuration (num_simulations <= 0, max_days <= 0,
\* trades_day_val <= 0 or win_rate outside (0, 100] percent) is rejected
\* before any trial runs: while the sweep is in a cell with such a
\* configuration no trial has started or been collected, run_monte_carlo has
\* raised nothing during or after its simulation, and it has returned no
\* result.
C12_RejectedBeforeTrials ==
    (sweep.pc = "in_cell" /\ Invalid(cfg)) =>
        /\ pc # "in_trial" /\ sim_no = 0
        /\ pc # "raised" /\ error = "none"
        /\ ~result.returned

\* ------------------------------------------------------------------ C13
\* C13: a sweep never surfaces partial results. Until the last cell has been
\* aggregated, and for good when the parsing or a cell has failed,
\* session_state is what the press of the button found; a failure ends the
\* sweep at the cell that raised, with only the earlier cells gathered; and
\* once session_state is replaced it holds one row per cell of the grid, each
\* aggregated over all num_simulations trials, together with the snapshot of
\* the parameters.
C13_NoPartialResult ==
    /\ sweep.pc \in {"clicked", "cell", "in_cell", "save", "error_shown", "crashed"} =>
           session_state = sweep.before
    /\ sweep.pc = "crashed" =>
           /\ pc = "raised"
           /\ Len(sweep.results_summary) = sweep.current_step - 1
    /\ sweep.pc = "saved" =>
           /\ Len(session_state.sim_results) = Len(risk_input) * Len(trades_input)
           /\ Len(sweep.results_summary) = Len(session_state.sim_results)
           /\ \A k \in 1..Len(sweep.results_summary) :
                  /\ sweep.results_summary[k].returned
                  /\ Len(sweep.results_summary[k].RawData.PnL) = cfg.num_simulations
           /\ Len(session_state.sim_params) = 1
           /\ session_state.sim_params[1].r_in = risk_input
           /\ session_state.sim_params[1].t_in = trades_input

\* A cell has failed while the results of an earlier press were stored.
C13_Witness ==
    /\ sweep.pc = "crashed"
    /\ error = "ZeroDivisionError"
    /\ sweep.before = EarlierStored
    /\ session_state = EarlierStored

\* A sweep of four cells has replaced the results of an earlier press.
C13_WitnessSaved ==
    /\ sweep.pc = "saved"
    /\ sweep.before = EarlierStored
    /\ Len(session_state.sim_results) = 4

\* ------------------------------------------------------------------ C14
\* C14: with a positive profit target and positive drawdown amounts, a trial
\* that is In Progress after a trade's exit checks has its equity strictly
\* above the drawdown floor and strictly below account_size + profit_target,
\* also on a trade on which the personal breaker ended the day; so the
\* breaker never ends a day on a trade that reached the target, a trial
\* recorded as Timeout has a final PnL below profit_target, and a trial is
\* recorded as Passed exactly when its final PnL is at least profit_target.
C14_InProgressBand ==
    PositiveRules(cfg) =>
        /\ (AfterTrade(sim) /\ sim.status = "In Progress") =>
               /\ sim.equity > sim.current_dd_limit
               /\ sim.equity < cfg.account_size + cfg.profit_target
        /\ (AfterTrade(sim) /\ sim.exit = "personal") => ~TargetHit(sim, cfg)
        /\ \A k \in 1..Len(all_final_pnl) :
               /\ all_final_pnl[k].Status = "Timeout" =>
                      all_final_pnl[k].PnL < cfg.profit_target
               /\ all_final_pnl[k].Status = "Passed" <=>
                      all_final_pnl[k].PnL >= cfg.profit_target

\* A trial with positive rule amounts has been recorded as Timeout after the
\* breaker ended one of its days.
C14_Witness ==
    /\ PositiveRules(cfg)
    /\ Len(all_final_pnl) > 0
    /\ all_final_pnl[Len(all_final_pnl)].Status = "Timeout"
    /\ pc \in {"trial_loop", "stats"}
    /\ \E d \in 1..Len(sim.exits) : sim.exits[d] = "personal"

\* ------------------------------------------------------------------ C15
\* The wins (TRUE) and losses (FALSE) of the trades the trial has executed,
\* in order, over all its days.
Outcomes(s) == [k \in 1..Consumed(s) |-> IsWin(tape[k], cfg)]

\* The length of the run of outcome w that ends with trade k.
RECURSIVE RunAt(_, _, _)
RunAt(o, k, w) == IF k = 0 \/ o[k] # w THEN 0 ELSE 1 + RunAt(o, k - 1, w)

LongestRun(o, w) ==
    LET lens == {RunAt(o, k, w) : k \in 0..Len(o)}
    IN CHOOSE m \in lens : \A x \in lens : x <= m

\* C15: after every trade at most one of the two current streaks is non-zero
\* and each maximum is at least its current streak; the current streaks are
\* the runs that end with the last trade executed, across day boundaries and
\* days the breaker ended, so the maxima, and the values recorded at the end
\* of the trial, are the lengths of the longest run of wins and of losses in
\* the whole sequence of trades the trial executed.
C15_Streaks ==
    LET o == Outcomes(sim) IN
    /\ sim.current_win_streak = 0 \/ sim.current_loss_streak = 0
    /\ sim.sim_max_win_streak >= sim.current_win_streak
    /\ sim.sim_max_loss_streak >= sim.current_loss_streak
    /\ sim.current_win_streak = RunAt(o, Len(o), TRUE)
    /\ sim.current_loss_streak = RunAt(o, Len(o), FALSE)
    /\ sim.sim_max_win_streak = LongestRun(o, TRUE)
    /\ sim.sim_max_loss_streak = LongestRun(o, FALSE)
    /\ Len(all_max_win_streaks) = 1 =>
           /\ all_max_win_streaks[1] = LongestRun(o, TRUE)
           /\ all_max_loss_streaks[1] = LongestRun(o, FALSE)

\* A trial has been recorded with a loss streak of 2 made of the single
\* trade of day 1, after which the breaker ended the day, and the first
\* trade of day 2.
C15_Witness ==
    /\ Len(all_max_loss_streaks) = 1
    /\ all_max_loss_streaks[1] = 2
    /\ Len(sim.executed) = 2
    /\ sim.executed[1] = 1
    /\ sim.exits[1] = "personal"
    /\ ~IsWin(tape[1], cfg) /\ ~IsWin(tape[2], cfg)

====
